---------------------------- MODULE Spec2Model ----------------------------
(***************************************************************************)
(* A model of the bitset-based Sudoku solver: the SudokuBoard class        *)
(* (SudokuBoard.h / SudokuBoard.cpp) and the part of Main.cpp that feeds   *)
(* it a puzzle and counts the listener calls.                              *)
(*                                                                         *)
(* The board is the array of 12 words of 64 bits; a word is modelled as    *)
(* the set of the positions of its set bits.                               *)
(***************************************************************************)
EXTENDS Integers, Sequences, FiniteSets, TLC

(***************************************************************************)
(* Program constants.                                                      *)
(***************************************************************************)
BoardSize == 9
ChunkSize == 3
WordBits == 64
WordCount == 12

Coords == 0 .. (BoardSize - 1)
Values == 1 .. BoardSize
CellCount == BoardSize * BoardSize
CellIndexes == 0 .. (CellCount - 1)
WordIndexes == 0 .. (WordCount - 1)
BitOffsets == 0 .. (WordBits - 1)

(***************************************************************************)
(* Tuple2 / GPos: a coordinate pair.                                       *)
(***************************************************************************)
GPos(x, y) == [x |-> x, y |-> y]

getX(gpos) == gpos.x

getY(gpos) == gpos.y

(* x + 9 * y, the index used for the assigned[] markers *)
MarkerIndex(gpos) == getX(gpos) + BoardSize * getY(gpos)

PosOfIndex(i) == GPos(i % BoardSize, i \div BoardSize)

(* an index that gives each cell the room of eight flags *)
gpos2bitsetIndexPacked(gpos) ==
    LET cellIndex == getX(gpos) + getY(gpos) * BoardSize
    IN  cellIndex * (BoardSize - 1)

(***************************************************************************)
(* Board storage.                                                          *)
(***************************************************************************)
gpos2bitsetIndex(gpos) ==
    LET cellIndex == getX(gpos) + getY(gpos) * BoardSize
    IN  cellIndex * BoardSize

(* a constructor that fills all words but the last *)
DefaultBoardShort ==
    [w \in WordIndexes |-> IF w = WordCount - 1 THEN {} ELSE BitOffsets]

(* SudokuBoard(): every bit of every word set *)
DefaultBoard == [w \in WordIndexes |-> BitOffsets]

ValueInRange(value) == 1 <= value /\ value <= BoardSize

(* the flat bit index of (gpos, value) *)
BitIndex(gpos, value) == gpos2bitsetIndex(gpos) + (value - 1)

(* bit bit_index of the array: word bit_index / 64, offset bit_index % 64 *)
BitAt(b, bit_index) == (bit_index % WordBits) \in b[bit_index \div WordBits]

(* isPossibleAt past its range check *)
TestBit(b, gpos, value) == BitAt(b, BitIndex(gpos, value))

(* isPossibleAt: [ret, threw] *)
isPossibleAt(b, gpos, value) ==
    IF ~ValueInRange(value)
    THEN [ret |-> FALSE, threw |-> TRUE]
    ELSE [ret |-> TestBit(b, gpos, value), threw |-> FALSE]

(* a setPossibleAt that reports a change on every call *)
WriteBitAtAlwaysChanged(b, bsci, bsii, isPossible) ==
    IF isPossible
    THEN [bitset |-> [b EXCEPT ![bsci] = @ \cup {bsii}], ret |-> TRUE, threw |-> FALSE]
    ELSE [bitset |-> [b EXCEPT ![bsci] = @ \ {bsii}], ret |-> TRUE, threw |-> FALSE]

(* setPossibleAt once the word bsci and the offset bsii are known *)
WriteBitAt(b, bsci, bsii, isPossible) ==
    IF (bsii \in b[bsci]) = isPossible
    THEN [bitset |-> b, ret |-> FALSE, threw |-> FALSE]
    ELSE IF isPossible
         THEN [bitset |-> [b EXCEPT ![bsci] = @ \cup {bsii}], ret |-> TRUE,
               threw |-> FALSE]
         ELSE [bitset |-> [b EXCEPT ![bsci] = @ \ {bsii}], ret |-> TRUE,
               threw |-> FALSE]

(* setPossibleAt past its range check *)
WriteBit(b, bit_index, isPossible) ==
    WriteBitAt(b, bit_index \div WordBits, bit_index % WordBits, isPossible)

(* a setPossibleAt without the range check *)
setPossibleAtUnchecked(b, gpos, value, isPossible) ==
    WriteBit(b, BitIndex(gpos, value), isPossible)

(* setPossibleAt: [bitset, ret, threw] *)
setPossibleAt(b, gpos, value, isPossible) ==
    IF ~ValueInRange(value)
    THEN [bitset |-> b, ret |-> FALSE, threw |-> TRUE]
    ELSE WriteBit(b, BitIndex(gpos, value), isPossible)

(* what a setPossibleAt call inside makeSureAt leaves: its return value is dropped *)
Dropped(r) == [bitset |-> r.bitset, threw |-> r.threw]

(* a loop body of makeSureAt that sets the flag of value whatever force is *)
makeSureStepAlwaysForce(st, gpos, v, value, force) ==
    IF st.threw THEN st
    ELSE Dropped(setPossibleAt(st.bitset, gpos, v, v = value))

(* one turn of the loop of makeSureAt, for candidate v *)
makeSureStep(st, gpos, v, value, force) ==
    IF st.threw THEN st
    ELSE IF v = value
         THEN IF force
              THEN Dropped(setPossibleAt(st.bitset, gpos, v, TRUE))
              ELSE st
         ELSE Dropped(setPossibleAt(st.bitset, gpos, v, FALSE))

(* the loop of makeSureAt for v = lo..hi, in ascending order: the first half *)
(* of the range, then the second                                           *)
RECURSIVE makeSureLoop(_, _, _, _, _, _)
makeSureLoop(st, gpos, lo, hi, value, force) ==
    IF st.threw THEN st
    ELSE IF lo = hi THEN makeSureStep(st, gpos, lo, value, force)
    ELSE makeSureLoop(makeSureLoop(st, gpos, lo, (lo + hi) \div 2, value, force),
                      gpos, (lo + hi) \div 2 + 1, hi, value, force)

(* makeSureAt: [bitset, threw] *)
makeSureAt(b, gpos, value, force) ==
    makeSureLoop([bitset |-> b, threw |-> FALSE], gpos, 1, BoardSize, value, force)

(* a scan of the values from 9 down to 1 *)
getCandiatesAtDescending(b, gpos) ==
    SelectSeq([v \in Values |-> BoardSize + 1 - v], LAMBDA v : TestBit(b, gpos, v))

(* getCandiatesAt: the set values in ascending order *)
getCandiatesAt(b, gpos) ==
    SelectSeq([v \in Values |-> v], LAMBDA v : TestBit(b, gpos, v))

(* the count and the last value seen by the scan of getCellInfoAt *)
CellInfo(cands) ==
    [count |-> Len(cands),
     onlyValue |-> IF Len(cands) = 1 THEN cands[Len(cands)] ELSE 0]

(* getCellInfoAt: [count, onlyValue] *)
getCellInfoAt(b, gpos) == CellInfo(getCandiatesAt(b, gpos))

getOnlyPossibleValue(b, gpos) == getCellInfoAt(b, gpos).onlyValue

getPossiblesCountAt(b, gpos) == getCellInfoAt(b, gpos).count

(* a copy that is a fresh board instead of the data of b *)
copyDataFresh(b) == DefaultBoard

copyData(b) == b

(***************************************************************************)
(* simplify(): one pass of the two deduction rules.  The pass carries the  *)
(* board, the elimination count, the outcome so far and the events handed  *)
(* to the listener, in order.                                              *)
(***************************************************************************)
Event(cause, cell, value, by) ==
    [cause |-> cause, cell |-> cell, value |-> value, by |-> by]

(* the other cells of row y, in the order of the loop cx = 0..8 *)
RowScan(x, y) ==
    SelectSeq([i \in 1 .. BoardSize |-> GPos(i - 1, y)], LAMBDA p : getX(p) # x)

(* the other cells of column x, in the order of the loop cy = 0..8 *)
ColumnScan(x, y) ==
    SelectSeq([i \in 1 .. BoardSize |-> GPos(x, i - 1)], LAMBDA p : getY(p) # y)

(* a chunk scan that stays in the row of the cell *)
ChunkScanSameRow(x, y) ==
    LET chunkStartX == (x \div ChunkSize) * ChunkSize
    IN  SelectSeq([i \in 1 .. ChunkSize |-> GPos(chunkStartX + (i - 1), y)],
                  LAMBDA p : getX(p) # x)

(* the other cells of the chunk, by outer and bx inner *)
ChunkScan(x, y) ==
    LET chunkStartX == (x \div ChunkSize) * ChunkSize
        chunkStartY == (y \div ChunkSize) * ChunkSize
    IN  SelectSeq([i \in 1 .. (ChunkSize * ChunkSize) |->
                      GPos(chunkStartX + ((i - 1) % ChunkSize),
                           chunkStartY + ((i - 1) \div ChunkSize))],
                  LAMBDA p : ~(getX(p) = x /\ getY(p) = y))

(* the three scans of every cell, computed once *)
RowTable == [i \in CellIndexes |-> RowScan(i % BoardSize, i \div BoardSize)]

ColumnTable == [i \in CellIndexes |-> ColumnScan(i % BoardSize, i \div BoardSize)]

ChunkTable == [i \in CellIndexes |-> ChunkScan(i % BoardSize, i \div BoardSize)]

RowPeers(x, y) == RowTable[x + BoardSize * y]

ColumnPeers(x, y) == ColumnTable[x + BoardSize * y]

ChunkPeers(x, y) == ChunkTable[x + BoardSize * y]

ChunkIndex(x, y) == (x \div ChunkSize) + ChunkSize * (y \div ChunkSize)

(* a naked-single step that counts the elimination and leaves the flag set *)
EliminateAtCountOnly(st, peer, onlyVal, cause, by) ==
    IF isPossibleAt(st.bitset, peer, onlyVal).ret
    THEN [st EXCEPT !.eliminations = @ + 1,
                    !.events = Append(@, Event(cause, peer, onlyVal, by))]
    ELSE st

(* one peer of a naked single: clear onlyVal there when it is set *)
EliminateAt(st, peer, onlyVal, cause, by) ==
    IF isPossibleAt(st.bitset, peer, onlyVal).ret
    THEN [st EXCEPT !.bitset = setPossibleAt(@, peer, onlyVal, FALSE).bitset,
                    !.eliminations = @ + 1,
                    !.events = Append(@, Event(cause, peer, onlyVal, by))]
    ELSE st

(* one elimination loop of the naked-single rule over peers[lo..hi], in     *)
(* order: the first half of the range, then the second                     *)
RECURSIVE EliminateLoop(_, _, _, _, _, _, _)
EliminateLoop(st, peers, lo, hi, onlyVal, cause, by) ==
    IF ~st.ok THEN st
    ELSE IF lo = hi THEN EliminateAt(st, peers[lo], onlyVal, cause, by)
    ELSE EliminateLoop(
             EliminateLoop(st, peers, lo, (lo + hi) \div 2, onlyVal, cause, by),
             peers, (lo + hi) \div 2 + 1, hi, onlyVal, cause, by)

EliminateFrom(st, peers, onlyVal, cause, by) ==
    EliminateLoop(st, peers, 1, Len(peers), onlyVal, cause, by)

(* the naked-single rule at (x, y): row, then column, then chunk *)
NakedSingle(st, x, y, onlyVal) ==
    EliminateFrom(
        EliminateFrom(
            EliminateFrom(st, RowPeers(x, y), onlyVal, "ELIMINATION_BY_ROW", y),
            ColumnPeers(x, y), onlyVal, "ELIMINATION_BY_COLUMN", x),
        ChunkPeers(x, y), onlyVal, "ELIMINATION_BY_CHUNK", ChunkIndex(x, y))

(* a uniqueness scan that looks at the first peer only *)
UniqueInFirst(b, peers, v) == ~isPossibleAt(b, peers[1], v).ret

(* success of a uniqueness scan: v is set at no peer *)
UniqueIn(b, peers, v) ==
    \A i \in 1 .. Len(peers) : ~isPossibleAt(b, peers[i], v).ret

(* one house check of the hidden-single rule; cnt is the count taken before the loop *)
HiddenHouse(st, selfPos, v, cnt, peers, cause, by) ==
    IF UniqueIn(st.bitset, peers, v)
    THEN [st EXCEPT !.eliminations = @ + (cnt - 1),
                    !.events = Append(@, Event(cause, selfPos, v, by)),
                    !.bitset = makeSureAt(@, selfPos, v, FALSE).bitset]
    ELSE st

(* a loop body that runs the three house checks for a value that is not   *)
(* set at the cell as well                                                 *)
HiddenValueUnchecked(st, x, y, v, cnt) ==
    HiddenHouse(
        HiddenHouse(
            HiddenHouse(st, GPos(x, y), v, cnt, RowPeers(x, y),
                        "VALUE_SURE_BY_ROW", y),
            GPos(x, y), v, cnt, ColumnPeers(x, y), "VALUE_SURE_BY_COLUMN", x),
        GPos(x, y), v, cnt, ChunkPeers(x, y), "VALUE_SURE_BY_CHUNK",
        ChunkIndex(x, y))

(* the body of the loop over v: row, column and chunk checks in turn *)
HiddenValue(st, x, y, v, cnt) ==
    IF ~isPossibleAt(st.bitset, GPos(x, y), v).ret THEN st
    ELSE HiddenHouse(
             HiddenHouse(
                 HiddenHouse(st, GPos(x, y), v, cnt, RowPeers(x, y),
                             "VALUE_SURE_BY_ROW", y),
                 GPos(x, y), v, cnt, ColumnPeers(x, y), "VALUE_SURE_BY_COLUMN", x),
             GPos(x, y), v, cnt, ChunkPeers(x, y), "VALUE_SURE_BY_CHUNK",
             ChunkIndex(x, y))

(* the loop of the hidden-single rule for v = lo..hi, in ascending order:   *)
(* the first half of the range, then the second                            *)
RECURSIVE HiddenLoop(_, _, _, _, _, _)
HiddenLoop(st, x, y, lo, hi, cnt) ==
    IF ~st.ok THEN st
    ELSE IF lo = hi THEN HiddenValue(st, x, y, lo, cnt)
    ELSE HiddenLoop(HiddenLoop(st, x, y, lo, (lo + hi) \div 2, cnt),
                    x, y, (lo + hi) \div 2 + 1, hi, cnt)

HiddenSingles(st, x, y, cnt) == HiddenLoop(st, x, y, 1, BoardSize, cnt)

(* a cell without candidates that is reported and does not end the pass *)
NoValueGoOn(st, selfPos) ==
    [st EXCEPT !.events = Append(@, Event("NO_VALUE_POSSIBLE", selfPos, 0, 0))]

NoValue(st, selfPos) ==
    [st EXCEPT !.ok = FALSE,
               !.events = Append(@, Event("NO_VALUE_POSSIBLE", selfPos, 0, 0))]

(* the scan at (x, y) after the naked-single rule: the count is taken again *)
AfterNaked(st1, x, y, info2) ==
    IF info2.count = 0 THEN NoValue(st1, GPos(x, y))
    ELSE IF info2.count = 1 THEN st1
    ELSE HiddenSingles(st1, x, y, info2.count)

Recount(st1, x, y) == AfterNaked(st1, x, y, getCellInfoAt(st1.bitset, GPos(x, y)))

(* the scan at (x, y), info being getCellInfoAt there *)
WithInfo(st, x, y, info) ==
    IF info.count = 0 THEN NoValue(st, GPos(x, y))
    ELSE IF info.count = 1
         THEN Recount(NakedSingle(st, x, y, info.onlyValue), x, y)
         ELSE Recount(st, x, y)

(* the body of the scan, at cell (x, y) *)
simplifyCell(st, x, y) == WithInfo(st, x, y, getCellInfoAt(st.bitset, GPos(x, y)))

(* the two nested loops of simplify over the cells lo..hi in row-major      *)
(* order (cell i is x = i % 9, y = i / 9): the first half of the range,    *)
(* then the second; return false leaves the loops, so nothing runs once ok *)
(* is false                                                                *)
RECURSIVE simplifyLoop(_, _, _)
simplifyLoop(st, lo, hi) ==
    IF ~st.ok THEN st
    ELSE IF lo = hi THEN simplifyCell(st, lo % BoardSize, lo \div BoardSize)
    ELSE simplifyLoop(simplifyLoop(st, lo, (lo + hi) \div 2), (lo + hi) \div 2 + 1, hi)

(* simplify: [bitset, eliminations, ok, events] *)
simplify(b) ==
    simplifyLoop([bitset |-> b, eliminations |-> 0, ok |-> TRUE, events |-> <<>>],
                 0, CellCount - 1)

(* an isSolved that looks for the count 0 where the code looks for 1 *)
isSolvedZero(b) ==
    \A i \in CellIndexes : getCellInfoAt(b, PosOfIndex(i)).count = 0

(***************************************************************************)
(* Status checks and the MRV scan.                                         *)
(***************************************************************************)
(* an isSolved that accepts every cell that still has a candidate *)
isSolvedNonEmpty(b) ==
    \A i \in CellIndexes : getCellInfoAt(b, PosOfIndex(i)).count >= 1

isSolved(b) ==
    \A i \in CellIndexes : getCellInfoAt(b, PosOfIndex(i)).count = 1

hasContradiction(b) ==
    \E i \in CellIndexes : getCellInfoAt(b, PosOfIndex(i)).count = 0

(* a scan that takes a cell of one candidate for the least *)
findMRVStepAny(best, gp, cnt) ==
    IF cnt = 0 THEN [pos |-> gp, count |-> 0, returned |-> TRUE]
    ELSE IF cnt > 0 /\ cnt < best.count
         THEN [pos |-> gp, count |-> cnt, returned |-> FALSE]
         ELSE best

(* a scan that also lets a later cell with the same count take over *)
findMRVStepLast(best, gp, cnt) ==
    IF cnt = 0 THEN [pos |-> gp, count |-> 0, returned |-> TRUE]
    ELSE IF cnt > 1 /\ cnt <= best.count
         THEN [pos |-> gp, count |-> cnt, returned |-> FALSE]
         ELSE best

(* the body of the scan of findMRVCell at gp, cnt being the count there *)
findMRVStep(best, gp, cnt) ==
    IF cnt = 0 THEN [pos |-> gp, count |-> 0, returned |-> TRUE]
    ELSE IF cnt > 1 /\ cnt < best.count
         THEN [pos |-> gp, count |-> cnt, returned |-> FALSE]
         ELSE best

(* the two nested loops of findMRVCell over the cells lo..hi in row-major   *)
(* order: the first half of the range, then the second                     *)
RECURSIVE findMRVLoop(_, _, _, _)
findMRVLoop(b, best, lo, hi) ==
    IF best.returned THEN best
    ELSE IF lo = hi
         THEN findMRVStep(best, PosOfIndex(lo), getPossiblesCountAt(b, PosOfIndex(lo)))
         ELSE findMRVLoop(b, findMRVLoop(b, best, lo, (lo + hi) \div 2),
                          (lo + hi) \div 2 + 1, hi)

(* what findMRVCell does with the outcome of the scan *)
findMRVResult(best) ==
    [pos |-> best.pos, count |-> best.count,
     threw |-> ~best.returned /\ best.count = BoardSize + 1]

(* findMRVCell: [pos, count, threw] *)
findMRVCell(b) ==
    findMRVResult(findMRVLoop(b, [pos |-> GPos(0, 0), count |-> BoardSize + 1,
                                  returned |-> FALSE], 0, CellCount - 1))

(***************************************************************************)
(* Inputs.  A puzzle is the 81 characters solver() reads, row by row, as   *)
(* digits: 0 stands for any character that is not '1'..'9'.                *)
(***************************************************************************)
(* a grid with every cell given *)
FullPuzzle ==
    << 1,6,2,8,5,7,4,9,3,
       5,3,4,1,2,9,6,7,8,
       7,8,9,6,4,3,5,2,1,
       4,7,5,3,1,2,9,8,6,
       9,1,3,5,8,6,7,4,2,
       6,2,8,7,9,4,1,3,5,
       3,5,6,4,7,8,2,1,9,
       2,4,1,9,3,5,8,6,7,
       8,9,7,2,6,1,3,5,4 >>

(* FullPuzzle with the four corners of a rectangle of two values left out *)
TwinPuzzle ==
    << 1,6,2,8,0,7,0,9,3,
       5,3,4,1,2,9,6,7,8,
       7,8,9,6,0,3,0,2,1,
       4,7,5,3,1,2,9,8,6,
       9,1,3,5,8,6,7,4,2,
       6,2,8,7,9,4,1,3,5,
       3,5,6,4,7,8,2,1,9,
       2,4,1,9,3,5,8,6,7,
       8,9,7,2,6,1,3,5,4 >>

(* a puzzle of 41 clues that the two rules alone do not finish *)
SearchPuzzle ==
    << 1,0,0,8,0,7,0,9,3,
       0,3,4,0,2,0,0,0,8,
       0,8,9,6,0,0,5,0,0,
       4,7,5,3,0,2,9,8,0,
       9,1,3,0,8,0,0,0,2,
       6,2,8,0,9,4,0,3,0,
       3,0,0,0,7,0,0,1,9,
       0,4,1,0,0,0,0,0,7,
       0,9,7,0,0,0,3,0,0 >>

Puzzles == {FullPuzzle, TwinPuzzle, SearchPuzzle}

(* no clue at all: the board the constructor makes *)
EmptyPuzzle == [k \in 1 .. CellCount |-> 0]

(* the one clue 5 at (4, 4) *)
SingleCluePuzzle == [k \in 1 .. CellCount |-> IF k = 4 + BoardSize * 4 + 1 THEN 5 ELSE 0]

(* two clues 5 in row 0, at (0, 0) and (8, 0) *)
ConflictPuzzle ==
    [k \in 1 .. CellCount |-> IF k = 1 \/ k = BoardSize THEN 5 ELSE 0]

(* a puzzle of 35 clues solved through the second candidate of its first  *)
(* branch cell and the first of two candidates of a second one             *)
BacktrackPuzzle ==
    << 1,0,0,8,5,0,0,0,3,
       0,3,0,0,0,9,0,0,8,
       7,0,0,6,0,3,0,0,0,
       0,7,5,0,0,2,9,8,0,
       9,0,0,0,0,0,0,0,2,
       6,2,0,0,9,0,1,3,0,
       3,0,6,4,7,8,0,0,0,
       2,0,1,0,0,0,8,6,0,
       8,0,7,0,6,0,3,0,0 >>

Scenarios ==
    {EmptyPuzzle, SingleCluePuzzle, ConflictPuzzle, SearchPuzzle, BacktrackPuzzle}

(* the cells and values the caller's direct Board calls are drawn from: the  *)
(* cell (5, 1) holds flags 126..134, which lie in words 1 and 2              *)
ApiCells == {GPos(5, 1)}

ApiValues == 0 .. (BoardSize + 1)

MaxCalls == 1

(***************************************************************************)
(* State.                                                                  *)
(***************************************************************************)
VARIABLES
    bitset,             \* SudokuBoard::bitset of the global board
    pc,                 \* where the program is
    calls,              \* direct Board calls made on this board
    lastCall,           \* the most recent direct Board call and its outcome
    before,             \* solver()'s copy of the board taken before dfsSolve
    path,               \* std::vector<ui> path
    assigned,           \* bool assigned[81]
    stack,              \* the dfsSolve invocations inside their for loop
    index,              \* simplifyToTheEnd: index
    totalEliminations,  \* simplifyToTheEnd: totalEliminations
    isFirst,            \* dfsSolve: isFirst of the running invocation
    lastPass,           \* the most recent simplify() call: the board before and
                        \* after it, its number in simplifyToTheEnd, its outcome
    assignments,        \* Main.cpp: assignments
    simplifications,    \* Main.cpp: simplifications
    result,             \* what the outermost dfsSolve returned
    log,                \* the calls of simplify() and of the listeners made by
                        \* the running solve, in order
    steps               \* the steps the running solve has taken

vars == << bitset, pc, calls, lastCall, before, path, assigned, stack, index,
           totalEliminations, isFirst, lastPass, assignments, simplifications,
           result, log, steps >>

NoCall == [op |-> "none"]

NoPass == [ran |-> FALSE]

NoMarkers == [i \in CellIndexes |-> FALSE]

Init ==
    /\ bitset = DefaultBoard
    /\ pc = "input"
    /\ calls = 0
    /\ lastCall = NoCall
    /\ before = DefaultBoard
    /\ path = << >>
    /\ assigned = NoMarkers
    /\ stack = << >>
    /\ index = 0
    /\ totalEliminations = 0
    /\ isFirst = TRUE
    /\ lastPass = NoPass
    /\ assignments = 0
    /\ simplifications = 0
    /\ result = "none"
    /\ log = << >>
    /\ steps = 0

(***************************************************************************)
(* solver(): the read loop, one makeSureAt(.., true) per digit read.       *)
(***************************************************************************)
(* the character read at (x, y), as a digit *)
CharAt(puzzle, x, y) == puzzle[x + BoardSize * y + 1]

(* the body of the read loop at (x, y) *)
IngestCell(st, puzzle, x, y) ==
    IF CharAt(puzzle, x, y) \in Values
    THEN makeSureAt(st.bitset, GPos(x, y), CharAt(puzzle, x, y), TRUE)
    ELSE st

(* the two nested read loops over the cells lo..hi in row-major order: the  *)
(* first half of the range, then the second                                *)
RECURSIVE IngestLoop(_, _, _, _)
IngestLoop(st, puzzle, lo, hi) ==
    IF st.threw THEN st
    ELSE IF lo = hi THEN IngestCell(st, puzzle, lo % BoardSize, lo \div BoardSize)
    ELSE IngestLoop(IngestLoop(st, puzzle, lo, (lo + hi) \div 2),
                    puzzle, (lo + hi) \div 2 + 1, hi)

Ingest(b, puzzle) ==
    IngestLoop([bitset |-> b, threw |-> FALSE], puzzle, 0, CellCount - 1).bitset

ReadPuzzle ==
    /\ pc = "input"
    /\ \E puzzle \in Puzzles : bitset' = Ingest(bitset, puzzle)
    /\ pc' = "ready"
    /\ UNCHANGED << calls, lastCall, before, path, assigned, stack, index,
                    totalEliminations, isFirst, lastPass, assignments,
                    simplifications, result,
                    log, steps >>

(***************************************************************************)
(* Direct calls of the public Board operations.                            *)
(***************************************************************************)
CallIsPossible ==
    /\ pc = "ready"
    /\ calls < MaxCalls
    /\ \E gpos \in ApiCells, value \in ApiValues :
          LET r == isPossibleAt(bitset, gpos, value)
          IN  lastCall' = [op |-> "isPossibleAt", gpos |-> gpos, value |-> value,
                           flag |-> FALSE, was |-> bitset, ret |-> r.ret,
                           threw |-> r.threw]
    /\ calls' = calls + 1
    /\ UNCHANGED << bitset, pc, before, path, assigned, stack, index,
                    totalEliminations, isFirst, lastPass, assignments,
                    simplifications, result,
                    log, steps >>

CallSetPossible ==
    /\ pc = "ready"
    /\ calls < MaxCalls
    /\ \E gpos \in ApiCells, value \in ApiValues, isPossible \in BOOLEAN :
          LET r == setPossibleAt(bitset, gpos, value, isPossible)
          IN  /\ bitset' = r.bitset
              /\ lastCall' = [op |-> "setPossibleAt", gpos |-> gpos, value |-> value,
                              flag |-> isPossible, was |-> bitset, ret |-> r.ret,
                              threw |-> r.threw]
    /\ calls' = calls + 1
    /\ UNCHANGED << pc, before, path, assigned, stack, index, totalEliminations,
                    isFirst, lastPass, assignments, simplifications, result,
                    log, steps >>

CallMakeSure ==
    /\ pc = "ready"
    /\ calls < MaxCalls
    /\ \E gpos \in ApiCells, value \in ApiValues, force \in BOOLEAN :
          LET r == makeSureAt(bitset, gpos, value, force)
          IN  /\ bitset' = r.bitset
              /\ lastCall' = [op |-> "makeSureAt", gpos |-> gpos, value |-> value,
                              flag |-> force, was |-> bitset, ret |-> FALSE,
                              threw |-> r.threw]
    /\ calls' = calls + 1
    /\ UNCHANGED << pc, before, path, assigned, stack, index, totalEliminations,
                    isFirst, lastPass, assignments, simplifications, result,
                    log, steps >>

(***************************************************************************)
(* dfsSolve.                                                               *)
(***************************************************************************)
(* solver() calls dfsSolve(highlights, ...): path.clear(); path.push_back(0) *)
StartSolve ==
    /\ pc = "ready"
    /\ before' = copyData(bitset)
    /\ path' = << 0 >>
    /\ assigned' = NoMarkers
    /\ stack' = << >>
    /\ index' = 0
    /\ totalEliminations' = 0
    /\ isFirst' = TRUE
    /\ lastCall' = NoCall
    /\ log' = << >>
    /\ pc' = "simplify"
    /\ UNCHANGED << bitset, calls, lastPass, assignments, simplifications, result >>
    /\ steps' = 0

(* the record of one call of simplify(): the path of the running dfsSolve,  *)
(* what the call returned and how many times it called eliminateListener    *)
SimplifyCalled(r) ==
    [kind |-> "simplify", path |-> path, eliminations |-> r.eliminations,
     ok |-> r.ok, events |-> Len(r.events)]

(* the call simplifyListener(path, index++, eliminated, totalEliminations,   *)
(* isFirst, assigned) made through the wrapper of dfsSolve                   *)
PassEvent(r) ==
    [kind |-> "onSimplifyPass", path |-> path, index |-> index,
     eliminated |-> r.eliminations,
     eliminatedSum |-> totalEliminations + r.eliminations,
     isFirst |-> isFirst]

(* a turn of the while loop that, when simplify() returns false, returns   *)
(* false at once: the count of the failing pass is not added and the       *)
(* listener is not called                                                  *)
SimplifyPassDropFailing ==
    /\ pc = "simplify"
    /\ \E r \in {simplify(bitset)} :
           /\ bitset' = r.bitset
           /\ lastPass' = [ran |-> TRUE, was |-> bitset, now |-> r.bitset,
                           index |-> index, eliminations |-> r.eliminations,
                           ok |-> r.ok, events |-> r.events]
           /\ IF ~r.ok
              THEN /\ log' = Append(log, SimplifyCalled(r))
                   /\ pc' = "return_false"
                   /\ UNCHANGED << totalEliminations, simplifications, index >>
              ELSE IF r.eliminations = 0
                   THEN /\ pc' = "select"
                        /\ log' = Append(log, SimplifyCalled(r))
                        /\ UNCHANGED << totalEliminations, simplifications, index >>
                   ELSE /\ totalEliminations' = totalEliminations + r.eliminations
                        /\ simplifications' = simplifications + 1
                        /\ index' = index + 1
                        /\ log' = log \o << SimplifyCalled(r), PassEvent(r) >>
                        /\ pc' = "simplify"
    /\ UNCHANGED << calls, lastCall, before, path, assigned, stack, isFirst,
                    assignments, result >>
    /\ steps' = steps + 1

(* a simplifyToTheEnd that returns true after the first pass that returns  *)
(* true, whatever the pass cleared                                         *)
SimplifyPassOnce ==
    /\ pc = "simplify"
    /\ \E r \in {simplify(bitset)} :
           /\ bitset' = r.bitset
           /\ lastPass' = [ran |-> TRUE, was |-> bitset, now |-> r.bitset,
                           index |-> index, eliminations |-> r.eliminations,
                           ok |-> r.ok, events |-> r.events]
           /\ IF ~r.ok
              THEN /\ totalEliminations' = totalEliminations + r.eliminations
                   /\ simplifications' = simplifications + 1
                   /\ index' = index + 1
                   /\ log' = log \o << SimplifyCalled(r), PassEvent(r) >>
                   /\ pc' = "return_false"
              ELSE IF r.eliminations = 0
                   THEN /\ pc' = "select"
                        /\ log' = Append(log, SimplifyCalled(r))
                        /\ UNCHANGED << totalEliminations, simplifications, index >>
                   ELSE /\ totalEliminations' = totalEliminations + r.eliminations
                        /\ simplifications' = simplifications + 1
                        /\ index' = index + 1
                        /\ log' = log \o << SimplifyCalled(r), PassEvent(r) >>
                        /\ pc' = "select"
    /\ UNCHANGED << calls, lastCall, before, path, assigned, stack, isFirst,
                    assignments, result >>
    /\ steps' = steps + 1

(* one turn of the while loop of simplifyToTheEnd *)
SimplifyPass ==
    /\ pc = "simplify"
    /\ \E r \in {simplify(bitset)} :
           /\ bitset' = r.bitset
           /\ lastPass' = [ran |-> TRUE, was |-> bitset, now |-> r.bitset,
                           index |-> index, eliminations |-> r.eliminations,
                           ok |-> r.ok, events |-> r.events]
           /\ IF ~r.ok
              THEN /\ totalEliminations' = totalEliminations + r.eliminations
                   /\ simplifications' = simplifications + 1
                   /\ index' = index + 1
                   /\ log' = log \o << SimplifyCalled(r), PassEvent(r) >>
                   /\ pc' = "return_false"
              ELSE IF r.eliminations = 0
                   THEN /\ pc' = "select"
                        /\ log' = Append(log, SimplifyCalled(r))
                        /\ UNCHANGED << totalEliminations, simplifications, index >>
                   ELSE /\ totalEliminations' = totalEliminations + r.eliminations
                        /\ simplifications' = simplifications + 1
                        /\ index' = index + 1
                        /\ log' = log \o << SimplifyCalled(r), PassEvent(r) >>
                        /\ pc' = "simplify"
    /\ UNCHANGED << calls, lastCall, before, path, assigned, stack, isFirst,
                    assignments, result >>
    /\ steps' = steps + 1

(* after simplifyToTheEnd returned true: isSolved, findMRVCell, getCandiatesAt *)
Select ==
    /\ pc = "select"
    /\ IF isSolved(bitset)
       THEN /\ result' = "Success"
            /\ pc' = "done"
            /\ UNCHANGED << assigned, stack >>
       ELSE \E m \in {findMRVCell(bitset)} :
                IF m.threw
                THEN /\ result' = "Fatal"
                     /\ pc' = "done"
                     /\ UNCHANGED << assigned, stack >>
                ELSE IF m.count = 0
                THEN /\ pc' = "return_false"
                     /\ UNCHANGED << result, assigned, stack >>
                ELSE /\ assigned' = [assigned EXCEPT ![MarkerIndex(m.pos)] = TRUE]
                     /\ stack' = Append(stack,
                           [pos |-> m.pos,
                            candidates |-> getCandiatesAt(bitset, m.pos),
                            branchIndex |-> 0,
                            history |-> bitset,
                            tried |-> bitset,
                            isFirst |-> isFirst,
                            entryPath |-> path,
                            entryAssigned |-> assigned])
                     /\ pc' = "loop"
                     /\ UNCHANGED result
    /\ UNCHANGED << bitset, calls, lastCall, before, path, index, totalEliminations,
                    isFirst, lastPass, assignments, simplifications,
                    log >>
    /\ steps' = steps + 1

Top == stack[Len(stack)]

(* the call assignListener(path, assigned, pos), made after makeSureAt and  *)
(* push_back: the path and the board it is made with                        *)
AssignEvent(newPath, pos, value, b) ==
    [kind |-> "onAssign", path |-> newPath, pos |-> pos, value |-> value,
     count |-> getPossiblesCountAt(b, pos), depth |-> Len(stack)]

(* a turn of the for loop that calls assignListener first, before           *)
(* makeSureAt and push_back                                                *)
TryCandidateNotifyFirst ==
    /\ pc = "loop"
    /\ Top.branchIndex < Len(Top.candidates)
    /\ LET v == Top.candidates[Top.branchIndex + 1]
           history == copyData(bitset)
       IN  /\ bitset' = makeSureAt(bitset, Top.pos, v, FALSE).bitset
           /\ path' = Append(path, Top.branchIndex)
           /\ stack' = [stack EXCEPT ![Len(stack)] =
                           [@ EXCEPT !.branchIndex = @ + 1,
                                     !.history = history,
                                     !.tried = bitset]]
           /\ log' = Append(log, AssignEvent(path, Top.pos, v, bitset))
    /\ assignments' = assignments + 1
    /\ index' = 0
    /\ totalEliminations' = 0
    /\ isFirst' = FALSE
    /\ pc' = "simplify"
    /\ UNCHANGED << calls, lastCall, before, assigned, lastPass, simplifications,
                    result >>
    /\ steps' = steps + 1

(* one turn of the for loop up to the recursive call *)
TryCandidate ==
    /\ pc = "loop"
    /\ Top.branchIndex < Len(Top.candidates)
    /\ LET v == Top.candidates[Top.branchIndex + 1]
           history == copyData(bitset)
       IN  /\ bitset' = makeSureAt(bitset, Top.pos, v, FALSE).bitset
           /\ path' = Append(path, Top.branchIndex)
           /\ stack' = [stack EXCEPT ![Len(stack)] =
                           [@ EXCEPT !.branchIndex = @ + 1,
                                     !.history = history,
                                     !.tried = bitset]]
           /\ log' = Append(log, AssignEvent(path', Top.pos, v, bitset'))
    /\ assignments' = assignments + 1
    /\ index' = 0
    /\ totalEliminations' = 0
    /\ isFirst' = FALSE
    /\ pc' = "simplify"
    /\ UNCHANGED << calls, lastCall, before, assigned, lastPass, simplifications,
                    result >>
    /\ steps' = steps + 1

(* an end of the for loop that returns false with the cell still marked *)
ExhaustedKeepMark ==
    /\ pc = "loop"
    /\ Top.branchIndex >= Len(Top.candidates)
    /\ isFirst' = Top.isFirst
    /\ stack' = SubSeq(stack, 1, Len(stack) - 1)
    /\ pc' = "return_false"
    /\ UNCHANGED << bitset, calls, lastCall, before, path, assigned, index,
                    totalEliminations, lastPass, assignments, simplifications,
                    result,
                    log >>
    /\ steps' = steps + 1

(* a for loop that gives up after its first candidate *)
ExhaustedAfterFirst ==
    /\ pc = "loop"
    /\ Top.branchIndex >= 1
    /\ assigned' = [assigned EXCEPT ![MarkerIndex(Top.pos)] = FALSE]
    /\ isFirst' = Top.isFirst
    /\ stack' = SubSeq(stack, 1, Len(stack) - 1)
    /\ pc' = "return_false"
    /\ UNCHANGED << bitset, calls, lastCall, before, path, index, totalEliminations,
                    lastPass, assignments, simplifications, result,
                    log >>
    /\ steps' = steps + 1

(* the for loop ran out of candidates *)
Exhausted ==
    /\ pc = "loop"
    /\ Top.branchIndex >= Len(Top.candidates)
    /\ assigned' = [assigned EXCEPT ![MarkerIndex(Top.pos)] = FALSE]
    /\ isFirst' = Top.isFirst
    /\ stack' = SubSeq(stack, 1, Len(stack) - 1)
    /\ pc' = "return_false"
    /\ UNCHANGED << bitset, calls, lastCall, before, path, index, totalEliminations,
                    lastPass, assignments, simplifications, result,
                    log >>
    /\ steps' = steps + 1

(* a restore that makes a fresh board instead of the saved one *)
RollbackFresh ==
    /\ pc = "return_false"
    /\ stack # << >>
    /\ path' = SubSeq(path, 1, Len(path) - 1)
    /\ bitset' = DefaultBoard
    /\ isFirst' = Top.isFirst
    /\ pc' = "loop"
    /\ UNCHANGED << calls, lastCall, before, assigned, stack, index,
                    totalEliminations, lastPass, assignments, simplifications,
                    result,
                    log >>
    /\ steps' = steps + 1

(* the recursive call returned false: path.pop_back(); board = SudokuBoard(history) *)
Rollback ==
    /\ pc = "return_false"
    /\ stack # << >>
    /\ path' = SubSeq(path, 1, Len(path) - 1)
    /\ bitset' = Top.history
    /\ isFirst' = Top.isFirst
    /\ pc' = "loop"
    /\ UNCHANGED << calls, lastCall, before, assigned, stack, index,
                    totalEliminations, lastPass, assignments, simplifications,
                    result,
                    log >>
    /\ steps' = steps + 1

(* the outermost dfsSolve returned false *)
Fail ==
    /\ pc = "return_false"
    /\ stack = << >>
    /\ result' = "Failure"
    /\ pc' = "done"
    /\ UNCHANGED << bitset, calls, lastCall, before, path, assigned, stack, index,
                    totalEliminations, isFirst, lastPass, assignments,
                    simplifications,
                    log >>
    /\ steps' = steps + 1

(* main(): the next turn of while (true): counters reset, board = SudokuBoard() *)
NextPuzzle ==
    /\ pc = "done"
    /\ result # "Fatal"
    /\ bitset' = DefaultBoard
    /\ pc' = "input"
    /\ calls' = 0
    /\ lastCall' = NoCall
    /\ before' = DefaultBoard
    /\ path' = << >>
    /\ assigned' = NoMarkers
    /\ stack' = << >>
    /\ index' = 0
    /\ totalEliminations' = 0
    /\ isFirst' = TRUE
    /\ lastPass' = NoPass
    /\ assignments' = 0
    /\ simplifications' = 0
    /\ result' = "none"
    /\ log' = << >>
    /\ steps' = 0

Next ==
    \/ ReadPuzzle
    \/ CallIsPossible
    \/ CallSetPossible
    \/ CallMakeSure
    \/ StartSolve
    \/ SimplifyPass
    \/ Select
    \/ TryCandidate
    \/ Exhausted
    \/ Rollback
    \/ Fail
    \/ NextPuzzle

Spec == Init /\ [][Next]_vars

(* the solves of the scenario puzzles as read, with no direct Board call *)
ReadScenario ==
    /\ pc = "input"
    /\ \E puzzle \in Scenarios : bitset' = Ingest(bitset, puzzle)
    /\ pc' = "ready"
    /\ UNCHANGED << calls, lastCall, before, path, assigned, stack, index,
                    totalEliminations, isFirst, lastPass, assignments,
                    simplifications, result, log, steps >>

ScenarioNext ==
    \/ ReadScenario
    \/ StartSolve
    \/ SimplifyPass
    \/ Select
    \/ TryCandidate
    \/ Exhausted
    \/ Rollback
    \/ Fail
    \/ NextPuzzle

(* dfsSolve runs in the one thread of the program: once called it takes  *)
(* its next step until it returns.  While it runs a step is always there *)
(* to take (SimplifyPass and Select are total, TryCandidate and          *)
(* Exhausted share the for loop between them, Rollback and Fail the      *)
(* return of false; no reachable state is without successor), and steps  *)
(* counts the steps taken, so the fairness of the solve is weak fairness *)
(* of the counter's increment                                            *)
Running == pc \in {"simplify", "select", "loop", "return_false"}

DfsStep == Running /\ steps' = steps + 1

ScenarioSpec == Init /\ [][ScenarioNext]_vars /\ WF_steps(DfsStep)

(***************************************************************************)
(* Properties of the direct Board calls.  lastCall holds the arguments of  *)
(* the call, the board before it (was) and its outcome; bitset is the      *)
(* board after it.                                                         *)
(***************************************************************************)
IsCall(op) == lastCall.op = op

(* C7: makeSureAt(pos, v, force) with v in 1..9: with force = true the cell *)
(* ends with v as its only candidate whatever it held before; with         *)
(* force = false it ends with v as its only candidate if and only if v was *)
(* a candidate before the call, and otherwise it ends with no candidate.   *)
C7_ForceSemantics ==
    (IsCall("makeSureAt") /\ ValueInRange(lastCall.value)) =>
        /\ ~lastCall.threw
        /\ IF lastCall.flag \/ TestBit(lastCall.was, lastCall.gpos, lastCall.value)
           THEN /\ getPossiblesCountAt(bitset, lastCall.gpos) = 1
                /\ getOnlyPossibleValue(bitset, lastCall.gpos) = lastCall.value
           ELSE /\ getPossiblesCountAt(bitset, lastCall.gpos) = 0
                /\ getOnlyPossibleValue(bitset, lastCall.gpos) # lastCall.value

(* a non-forcing makeSureAt of a value that was not a candidate emptied the cell *)
C7_Witness ==
    /\ IsCall("makeSureAt")
    /\ ValueInRange(lastCall.value)
    /\ ~lastCall.flag
    /\ ~TestBit(lastCall.was, lastCall.gpos, lastCall.value)
    /\ getPossiblesCountAt(lastCall.was, lastCall.gpos) = 1
    /\ getPossiblesCountAt(bitset, lastCall.gpos) = 0

(* C8: after setPossibleAt(pos, v, b) with v in 1..9, isPossibleAt(pos, v)  *)
(* returns b; the call returned true exactly when the flag differed from b *)
(* before it, and the same call made again returns false.                  *)
C8_SetThenGet ==
    (IsCall("setPossibleAt") /\ ValueInRange(lastCall.value)) =>
        /\ ~lastCall.threw
        /\ isPossibleAt(bitset, lastCall.gpos, lastCall.value)
               = [ret |-> lastCall.flag, threw |-> FALSE]
        /\ lastCall.ret
               = (TestBit(lastCall.was, lastCall.gpos, lastCall.value) # lastCall.flag)
        /\ setPossibleAt(bitset, lastCall.gpos, lastCall.value, lastCall.flag)
               = [bitset |-> bitset, ret |-> FALSE, threw |-> FALSE]

(* a cleared flag of the last cell of word 1 / first of word 2 was set again *)
C8_Witness ==
    /\ IsCall("setPossibleAt")
    /\ ValueInRange(lastCall.value)
    /\ lastCall.flag
    /\ lastCall.ret
    /\ ~TestBit(lastCall.was, lastCall.gpos, lastCall.value)
    /\ TestBit(bitset, lastCall.gpos, lastCall.value)

(* C9: isPossibleAt and setPossibleAt called with a value outside 1..9     *)
(* (0 and 10 among them) throw, and every flag of the board is as it was.  *)
C9_OutOfRangeThrown ==
    ((IsCall("isPossibleAt") \/ IsCall("setPossibleAt"))
        /\ ~ValueInRange(lastCall.value)) =>
        /\ lastCall.threw
        /\ bitset = lastCall.was

(* setPossibleAt(pos, 0, false) threw *)
C9_Witness ==
    /\ IsCall("setPossibleAt")
    /\ lastCall.value = 0
    /\ ~lastCall.flag
    /\ lastCall.threw

(* C10: makeSureAt called with a value outside 1..9 throws and leaves the   *)
(* board as it was, for force = true and force = false alike.  The code    *)
(* does neither: the loop over v = 1..9 never meets v == value, so each of *)
(* the nine flags of the cell is cleared and the call returns normally.    *)
C10_MakeSureOutOfRange ==
    (IsCall("makeSureAt") /\ ~ValueInRange(lastCall.value)) =>
        /\ lastCall.threw
        /\ bitset = lastCall.was

(***************************************************************************)
(* Properties of one simplify() pass and of the restore in dfsSolve.       *)
(***************************************************************************)
(* the candidates of the cell of index i, read from its nine flags *)
CandidatesOf(b, i) == {v \in Values : BitAt(b, i * BoardSize + (v - 1))}

(* 729, the number of candidate flags of a board *)
AllFlags == CellCount * BoardSize

(* the set candidate flags of the 81 cells, as flat bit indexes *)
FlagsOf(b) == {k \in 0 .. (AllFlags - 1) : BitAt(b, k)}

FlagCount(b) == Cardinality(FlagsOf(b))

(* no flag set in now is clear in was *)
NoFlagSet(was, now) ==
    \A i \in CellIndexes : CandidatesOf(now, i) \subseteq CandidatesOf(was, i)

(* C4: when a trial assignment's recursion has returned false and the board *)
(* has been restored, every flag of the board is as it was immediately     *)
(* before that trial assignment; tried is the board the loop turn started  *)
(* from.                                                                   *)
C4_RollbackExact ==
    (pc = "loop" /\ Top.branchIndex > 0) => bitset = Top.tried

(* a restore inside a nested dfsSolve, after a branch whose passes cleared flags *)
C4_Witness ==
    /\ pc = "loop"
    /\ Len(stack) > 1
    /\ Top.branchIndex > 0
    /\ lastPass.ran
    /\ lastPass.now # Top.tried
    /\ bitset = Top.tried

(* C5: a simplifyToTheEnd never reaches a 730th call of simplify(): the     *)
(* pass numbered index (from 0) has index + 1 <= 729, and even             *)
(* index + flags before it <= 729; no pass sets a flag, and a pass that    *)
(* reports a non-zero elimination count leaves strictly fewer flags set.   *)
C5_PassesBounded ==
    lastPass.ran =>
        /\ lastPass.index + 1 <= AllFlags
        /\ lastPass.index + FlagCount(lastPass.was) <= AllFlags
        /\ NoFlagSet(lastPass.was, lastPass.now)
        /\ (lastPass.eliminations > 0 =>
               FlagCount(lastPass.now) < FlagCount(lastPass.was))
        /\ (lastPass.eliminations = 0 /\ lastPass.ok => lastPass.now = lastPass.was)

(* a fourth pass of one simplifyToTheEnd that still cleared flags *)
C5_Witness ==
    /\ lastPass.ran
    /\ lastPass.index >= 3
    /\ lastPass.eliminations > 0
    /\ lastPass.ok
    /\ FlagCount(lastPass.now) < FlagCount(lastPass.was)

(* two distinct cells of one row hold the same single candidate *)
RowDuplicate(b) ==
    \E y \in Coords, x1 \in Coords, x2 \in Coords :
        /\ x1 < x2
        /\ Cardinality(CandidatesOf(b, x1 + BoardSize * y)) = 1
        /\ CandidatesOf(b, x1 + BoardSize * y) = CandidatesOf(b, x2 + BoardSize * y)

(* C6: a simplify() pass on a board in which two distinct cells of one row  *)
(* are determined to the same value returns false, and the last event it   *)
(* hands to the listener is NO_VALUE_POSSIBLE.                             *)
C6_RowDuplicateDetected ==
    (lastPass.ran /\ RowDuplicate(lastPass.was)) =>
        /\ ~lastPass.ok
        /\ lastPass.events # << >>
        /\ lastPass.events[Len(lastPass.events)].cause = "NO_VALUE_POSSIBLE"

(* the first pass of the outermost dfsSolve met a row with a value given twice *)
C6_Witness ==
    /\ lastPass.ran
    /\ lastPass.index = 0
    /\ stack = << >>
    /\ RowDuplicate(lastPass.was)
    /\ ~lastPass.ok
    /\ pc = "return_false"

(***************************************************************************)
(* Sudoku itself, stated without the solver: the houses, the valid grids,  *)
(* and the valid grids that a board admits.  A grid is a sequence of 81    *)
(* values, cell i being its element i + 1.                                 *)
(***************************************************************************)
RowOf(i) == i \div BoardSize

ColumnOf(i) == i % BoardSize

ChunkOf(i) == (ColumnOf(i) \div ChunkSize) + ChunkSize * (RowOf(i) \div ChunkSize)

Houses ==
    {{i \in CellIndexes : RowOf(i) = h} : h \in Coords}
        \cup {{i \in CellIndexes : ColumnOf(i) = h} : h \in Coords}
        \cup {{i \in CellIndexes : ChunkOf(i) = h} : h \in Coords}

(* every row, column and chunk holds each value exactly once *)
ValidGrid(g) ==
    \A h \in Houses : \A v \in Values : Cardinality({i \in h : g[i + 1] = v}) = 1

(* the cells that share a house with cell i *)
HouseMates ==
    [i \in CellIndexes |->
        {j \in CellIndexes \ {i} :
            RowOf(j) = RowOf(i) \/ ColumnOf(j) = ColumnOf(i) \/ ChunkOf(j) = ChunkOf(i)}]

EarlierMates == [i \in CellIndexes |-> {j \in HouseMates[i] : j < i}]

(* g, a grid or the start of one, holds at cell i a candidate of the board *)
Admits(b, g) == \A i \in 0 .. (Len(g) - 1) : g[i + 1] \in CandidatesOf(b, i)

AllCandidates(b) == [i \in CellIndexes |-> CandidatesOf(b, i)]

(* the candidates of cell i that no house mate with a single candidate holds: *)
(* no valid grid the board admits has another value there                  *)
Usable(cs, i) ==
    IF Cardinality(cs[i]) = 1 THEN cs[i]
    ELSE cs[i] \ UNION {cs[j] : j \in {k \in HouseMates[i] : Cardinality(cs[k]) = 1}}

UsableCandidates(cs) == [i \in CellIndexes |-> Usable(cs, i)]

(* the starts of valid grids of cells 0..i, given those of cells 0..i-1 *)
Extend(parts, cs, i) ==
    UNION {{Append(g, v) : v \in {w \in cs[i] : \A j \in EarlierMates[i] : g[j + 1] # w}}
              : g \in parts}

(* Extend for the cells lo..hi in turn *)
RECURSIVE ExtendOver(_, _, _, _)
ExtendOver(parts, cs, lo, hi) ==
    IF parts = {} THEN parts
    ELSE IF lo = hi THEN Extend(parts, cs, lo)
    ELSE ExtendOver(ExtendOver(parts, cs, lo, (lo + hi) \div 2), cs,
                    (lo + hi) \div 2 + 1, hi)

(* the valid grids whose value at every cell is a candidate of the board *)
ValidGridsOf(b) ==
    ExtendOver({<< >>}, UsableCandidates(AllCandidates(b)), 0, CellCount - 1)

(* the grid of a board with one candidate in every cell *)
GridOf(b) == [k \in 1 .. CellCount |-> CHOOSE v \in Values : v \in CandidatesOf(b, k - 1)]

(***************************************************************************)
(* Properties of dfsSolve and of simplify against Sudoku itself.           *)
(***************************************************************************)
(* C1: when dfsSolve has returned true, every one of the 81 cells has       *)
(* exactly one candidate, and every row, column and chunk holds each value *)
(* 1..9 exactly once.                                                      *)
C1_SuccessIsValidGrid ==
    (pc = "done" /\ result = "Success") =>
        /\ \A i \in CellIndexes : Cardinality(CandidatesOf(bitset, i)) = 1
        /\ ValidGrid(GridOf(bitset))

(* success after a search: trial assignments were made and one was undone *)
C1_Witness ==
    /\ pc = "done"
    /\ result = "Success"
    /\ assignments > 1
    /\ \E i \in CellIndexes : Cardinality(CandidatesOf(before, i)) > 1
    /\ ValidGrid(GridOf(bitset))

DfsOutcomeComplete(grids) ==
    /\ result \in {"Success", "Failure"}
    /\ grids # {} => result = "Success"
    /\ result = "Failure" => grids = {}

(* C2: when dfsSolve has returned, on a board (before: the board it was     *)
(* called on) that admits a valid grid it has returned true, and it has    *)
(* returned false only on a board that admits none; it has not thrown.     *)
C2_DfsComplete ==
    pc = "done" => DfsOutcomeComplete(ValidGridsOf(before))

(* failure found by search: every candidate of some cell was tried and undone *)
C2_Witness ==
    /\ pc = "done"
    /\ result = "Failure"
    /\ assignments > 1
    /\ ValidGridsOf(before) = {}

(* C3: a simplify() pass clears no flag (c, S(c)) of a valid grid S that   *)
(* the board admitted before the pass: S is admitted after it as well, and *)
(* the pass does not return false.                                         *)
C3_SimplifySound ==
    lastPass.ran =>
        \A S \in ValidGridsOf(lastPass.was) : Admits(lastPass.now, S) /\ lastPass.ok

(* a pass on a board with two valid grids that cleared flags by both rules *)
C3_Witness ==
    /\ lastPass.ran
    /\ Cardinality(ValidGridsOf(lastPass.was)) = 2
    /\ lastPass.now # lastPass.was
    /\ \E k \in 1 .. Len(lastPass.events) :
           lastPass.events[k].cause = "ELIMINATION_BY_CHUNK"
    /\ \E k \in 1 .. Len(lastPass.events) :
           lastPass.events[k].cause = "VALUE_SURE_BY_ROW"

(***************************************************************************)
(* The scenario boards.  lastPass holds the board before (was) and after   *)
(* (now) the most recent call of simplify(), its number in                 *)
(* simplifyToTheEnd (index), what it returned and the events it emitted.   *)
(***************************************************************************)
(* b has one candidate v at cell i and every candidate elsewhere *)
SingleClueAt(b, i, v) ==
    /\ CandidatesOf(b, i) = {v}
    /\ \A j \in CellIndexes \ {i} : CandidatesOf(b, j) = Values

(* the cells that share a row, a column or a chunk with cell i *)
PeersOf(i) ==
    {j \in CellIndexes \ {i} :
        \/ j \div BoardSize = i \div BoardSize
        \/ j % BoardSize = i % BoardSize
        \/ /\ (j \div BoardSize) \div ChunkSize = (i \div BoardSize) \div ChunkSize
           /\ (j % BoardSize) \div ChunkSize = (i % BoardSize) \div ChunkSize}

(* the causes with which simplify() reports a hidden single *)
HiddenCauses == {"VALUE_SURE_BY_ROW", "VALUE_SURE_BY_COLUMN", "VALUE_SURE_BY_CHUNK"}

(* what C11 says of a pass over a board whose one clue is v at cell i *)
SingleCluePassAt(i, v) ==
    /\ lastPass.ok
    /\ lastPass.eliminations = 20
    /\ Cardinality(PeersOf(i)) = 20
    /\ \A j \in CellIndexes :
          CandidatesOf(lastPass.now, j) =
             IF j = i THEN {v} ELSE IF j \in PeersOf(i) THEN Values \ {v} ELSE Values
    /\ \A k \in 1 .. Len(lastPass.events) : lastPass.events[k].cause \notin HiddenCauses

(* C11: a simplify() pass over a board on which one cell is forced to one *)
(* value and every other cell holds all nine candidates returns Ok with an *)
(* elimination count of exactly 20, clears that value at the 20 peers of   *)
(* the cell and nothing else, and reports no hidden single                 *)
C11_SingleClueTwenty ==
    lastPass.ran =>
        \A i \in CellIndexes, v \in Values :
            SingleClueAt(lastPass.was, i, v) => SingleCluePassAt(i, v)

(* the first pass of the solve of the board whose one clue is 5 at (4, 4) *)
C11_Witness ==
    /\ lastPass.ran
    /\ lastPass.index = 0
    /\ path = << 0 >>
    /\ SingleClueAt(lastPass.was, MarkerIndex(GPos(4, 4)), 5)
    /\ SingleClueAt(before, MarkerIndex(GPos(4, 4)), 5)
    /\ lastPass.eliminations = 20

(* the solve in progress took the board of the constructor as its input *)
EmptyBoardSolve == pc \notin {"input", "ready"} /\ before = DefaultBoard

(* what C12 says of the states of the solve of the board without clues *)
EmptyBoardStates ==
    EmptyBoardSolve =>
        /\ FlagCount(before) = AllFlags
        /\ log # << >> =>
              /\ log[1].kind = "simplify"
              /\ log[1].path = << 0 >>
              /\ log[1].ok
              /\ log[1].eliminations = 0
              /\ log[1].events = 0
        /\ pc = "done" =>
              /\ result = "Success"
              /\ \A i \in CellIndexes : Cardinality(CandidatesOf(bitset, i)) = 1
              /\ ValidGrid(GridOf(bitset))

(* C12: on the board of the constructor, all 729 flags set, the first      *)
(* simplify() pass returns Ok with 0 eliminations, and dfsSolve then       *)
(* returns, with Success and a board that is a valid complete grid         *)
C12_EmptyBoardSolved ==
    /\ []EmptyBoardStates
    /\ (EmptyBoardSolve /\ pc = "simplify") ~> (EmptyBoardSolve /\ pc = "done")

(* the solve of the board without clues has returned Success after search *)
C12_Witness ==
    /\ EmptyBoardSolve
    /\ pc = "done"
    /\ result = "Success"
    /\ log[1].eliminations = 0
    /\ assignments > 0
    /\ ValidGrid(GridOf(bitset))

(***************************************************************************)
(* The MRV choice, against the counts of the cells taken as sets.          *)
(***************************************************************************)
(* the number of candidates of every cell of b *)
CountsOf(b) == [i \in CellIndexes |-> Cardinality(CandidatesOf(b, i))]

ZeroCells(cs) == {i \in CellIndexes : cs[i] = 0}

OpenCells(cs) == {i \in CellIndexes : cs[i] >= 2}

(* the least of the counts of 2 or more *)
LeastOpenCount(cs) ==
    CHOOSE c \in 2 .. BoardSize :
        /\ \E i \in CellIndexes : cs[i] = c
        /\ \A i \in CellIndexes : cs[i] >= 2 => cs[i] >= c

(* the cells of that count *)
LeastOpenCells(cs) == {i \in CellIndexes : cs[i] = LeastOpenCount(cs)}

(* the first of a non-empty set of cells in row-major order *)
FirstOf(cells) == CHOOSE i \in cells : \A j \in cells : i <= j

(* what C13 says of the result m of findMRVCell on a board of counts cs *)
MRVChoice(cs, m) ==
    /\ ZeroCells(cs) # {} => ~m.threw /\ m.count = 0
    /\ (ZeroCells(cs) = {} /\ OpenCells(cs) # {}) =>
          /\ ~m.threw
          /\ m.count = LeastOpenCount(cs)
          /\ MarkerIndex(m.pos) = FirstOf(LeastOpenCells(cs))

(* C13: on every board the program reaches, findMRVCell returns count 0 if *)
(* some cell has no candidate; if no cell is empty and some cell has 2..9  *)
(* candidates it returns the least count above 1 and, of the cells with    *)
(* that count, the first in row-major order (lowest y, then lowest x)      *)
C13_MRVSelection ==
    \A cs \in {CountsOf(bitset)} : MRVChoice(cs, findMRVCell(bitset))

(* a board without empty cell on which a later cell has the count of the   *)
(* first least cell and an earlier cell is open with a larger count        *)
TieAfterLarger(cs, first) ==
    /\ ZeroCells(cs) = {}
    /\ OpenCells(cs) # {}
    /\ first = FirstOf(LeastOpenCells(cs))
    /\ \E j \in LeastOpenCells(cs) : j > first
    /\ \E i \in OpenCells(cs) : i < first /\ cs[i] > LeastOpenCount(cs)

(* dfsSolve has just taken the cell findMRVCell returned on such a board *)
C13_Witness ==
    /\ pc = "loop"
    /\ Top.branchIndex = 0
    /\ bitset = Top.history
    /\ \E cs \in {CountsOf(bitset)} : TieAfterLarger(cs, MarkerIndex(Top.pos))

(***************************************************************************)
(* The outcomes of dfsSolve.                                               *)
(***************************************************************************)
(* two cells of one house of b are determined to the same value *)
ConflictingClues(b) ==
    \E h \in Houses : \E i \in h, j \in h :
        /\ i < j
        /\ Cardinality(CandidatesOf(b, i)) = 1
        /\ CandidatesOf(b, i) = CandidatesOf(b, j)

(* the board dfsSolve was called with cannot be completed on its face *)
BrokenInput == ZeroCells(CountsOf(before)) # {} \/ ConflictingClues(before)

(* C14: whatever board dfsSolve is called with, a board with an empty cell *)
(* or with conflicting clues included, the call never ends in the          *)
(* exception of findMRVCell: where dfsSolve calls findMRVCell the scan     *)
(* finds an empty cell or a cell of 2..9 candidates, a call that has       *)
(* returned gave true or false, and on a board with an empty cell or       *)
(* conflicting clues it gave false                                         *)
C14_NoFatalOutcome ==
    /\ result \in {"none", "Success", "Failure"}
    /\ pc = "done" => result \in {"Success", "Failure"}
    /\ (pc = "select" /\ ~isSolved(bitset)) => ~findMRVCell(bitset).threw
    /\ (pc = "done" /\ BrokenInput) => result = "Failure"

(* dfsSolve was called on a board with an empty cell and returned false *)
C14_Witness ==
    /\ pc = "done"
    /\ result = "Failure"
    /\ ZeroCells(CountsOf(before)) # {}

(***************************************************************************)
(* The listener calls.  log holds, for the running solve and in order, one *)
(* "simplify" entry per call of simplify(), one "onSimplifyPass" entry per *)
(* call of simplifyListener and one "onAssign" entry per call of           *)
(* assignListener, each with the path it was made with.                    *)
(***************************************************************************)
EntriesOf(l, kind) == {i \in DOMAIN l : l[i].kind = kind}

(* p is a prefix of q *)
IsPrefix(p, q) == Len(p) <= Len(q) /\ SubSeq(q, 1, Len(p)) = p

(* the step commits a trial assignment: the for loop pushes on the path *)
TrialCommitted == pc = "loop" /\ Len(path') = Len(path) + 1

(* what C15 says of the step that commits a trial: one onAssign call, made  *)
(* with the pushed path and the cell of the loop, on a board that holds the *)
(* tried value alone there, and before anything of the recursion            *)
AssignEmitted(e) ==
    /\ log' = Append(log, e)
    /\ e.kind = "onAssign"
    /\ e.path = path'
    /\ e.pos = Top.pos
    /\ e.value = Top.candidates[path'[Len(path')] + 1]
    /\ e.count = 1
    /\ CandidatesOf(bitset', MarkerIndex(e.pos)) = {e.value}
    /\ \A i \in DOMAIN log : ~IsPrefix(path', log[i].path)
    /\ assignments' = assignments + 1

(* C15: every step of the solve that commits a trial assignment calls      *)
(* assignListener exactly once, after makeSureAt and the path push and     *)
(* before any call of the recursion it starts; no other step calls it; and *)
(* the assignment counter is the number of onAssign calls of the solve     *)
C15_OneAssignPerTrial ==
    [][/\ assignments' = Cardinality(EntriesOf(log', "onAssign"))
       /\ IF TrialCommitted
          THEN AssignEmitted(log'[Len(log')])
          ELSE \/ EntriesOf(log', "onAssign") = EntriesOf(log, "onAssign")
               \/ log' = << >>]_vars

(* the second candidate of a branch cell has just been committed *)
C15_Witness ==
    /\ pc = "simplify"
    /\ log # << >>
    /\ log[Len(log)].kind = "onAssign"
    /\ log[Len(log)].path = path
    /\ path[Len(path)] = 1
    /\ assignments >= 2
    /\ assignments = Cardinality(EntriesOf(log, "onAssign"))

(* C16: simplifyListener is called once per call of simplify(), so that in *)
(* every state of a solve the onSimplifyPass calls made so far are as many *)
(* as the simplify() calls finished so far, and the simplification counter *)
(* is that number.  The code does not do this: the pass that returns true  *)
(* with 0 eliminations leaves the loop by break, before the call of the    *)
(* listener, so each simplifyToTheEnd that returns true has run one pass   *)
(* more than it reported.                                                  *)
C16_EventPerPass ==
    /\ Cardinality(EntriesOf(log, "onSimplifyPass"))
          = Cardinality(EntriesOf(log, "simplify"))
    /\ simplifications = Cardinality(EntriesOf(log, "simplify"))

(* C17: the count a simplify() pass returns is the number of flags it      *)
(* cleared, the flags set before the pass less the flags set after it.     *)
(* The code does not do this: the hidden-single rule adds cnt - 1 for each *)
(* house (row, column, chunk) in which the value is unique, with the count *)
(* cnt taken before the loop over the values, while makeSureAt clears the  *)
(* other flags of the cell in the first of these houses only.              *)
C17_CountIsFlagsCleared ==
    lastPass.ran =>
        lastPass.eliminations = FlagCount(lastPass.was) - FlagCount(lastPass.now)

(***************************************************************************)
(* The independence of the flags.                                          *)
(***************************************************************************)
(* the flat index of C18: (x, y, v) -> (x + 9y) * 9 + (v - 1) *)
FlatIndex(x, y, v) == (x + 9 * y) * 9 + (v - 1)

(* the indexes the code, through gpos2bitsetIndex, gives to the 81 * 9     *)
(* pairs of a position and a value                                         *)
CodeIndexes == {BitIndex(GPos(x, y), v) : x \in Coords, y \in Coords, v \in Values}

(* the code's index is the flat index, and it maps the 729 pairs one to    *)
(* one onto 0..728                                                         *)
FlagMapBijective ==
    /\ \A x \in Coords, y \in Coords, v \in Values :
          BitIndex(GPos(x, y), v) = FlatIndex(x, y, v)
    /\ CodeIndexes = 0 .. (AllFlags - 1)
    /\ Cardinality(CodeIndexes) = Cardinality(Coords) * Cardinality(Coords) * BoardSize

(* the flags in which two boards differ *)
ChangedFlags(was, now) == {k \in 0 .. (AllFlags - 1) : BitAt(was, k) # BitAt(now, k)}

(* the nine flat indexes of the cell gpos *)
FlagsOfCell(gpos) == {FlatIndex(getX(gpos), getY(gpos), v) : v \in Values}

(* C18: the index (x, y, v) -> (x + 9y) * 9 + (v - 1) of the code maps the *)
(* 729 pairs one to one onto 0..728; setPossibleAt(pos, v, b) with v in    *)
(* 1..9 changes no flag but the one of (pos, v); makeSureAt(pos, v, force) *)
(* changes no flag outside the nine of pos; the cell called lies across    *)
(* two words of the bitset                                                 *)
C18_FlagsIndependent ==
    /\ FlagMapBijective
    /\ IsCall("setPossibleAt") =>
          ChangedFlags(lastCall.was, bitset)
              \subseteq ({FlatIndex(getX(lastCall.gpos), getY(lastCall.gpos),
                                    lastCall.value)}
                            \cap FlagsOfCell(lastCall.gpos))
    /\ IsCall("makeSureAt") =>
          ChangedFlags(lastCall.was, bitset) \subseteq FlagsOfCell(lastCall.gpos)

(* a forcing makeSureAt changed flags of its cell in two words, and every  *)
(* flag of the cells before and after it is as it was                      *)
C18_Witness ==
    /\ IsCall("makeSureAt")
    /\ ValueInRange(lastCall.value)
    /\ lastCall.flag
    /\ \E k1 \in ChangedFlags(lastCall.was, bitset),
          k2 \in ChangedFlags(lastCall.was, bitset) :
              k1 \div WordBits # k2 \div WordBits
    /\ ChangedFlags(lastCall.was, bitset) \subseteq FlagsOfCell(lastCall.gpos)

(***************************************************************************)
(* The pass events of one simplifyToTheEnd.  A dfsSolve invocation makes   *)
(* one call of simplifyToTheEnd, and its path is that of no other          *)
(* invocation of the solve, so the entries of one path are one run.        *)
(***************************************************************************)
PathsOf(l) == {l[i].path : i \in DOMAIN l}

(* the simplifyListener calls made with the path p, in order *)
PassEventsOf(l, p) ==
    SelectSeq(l, LAMBDA e : e.kind = "onSimplifyPass" /\ e.path = p)

(* the indexes of s are 0, 1, 2, ... and each running total is the total   *)
(* before it plus the count of its own pass                                *)
RunningTotals(s) ==
    \A k \in DOMAIN s :
        /\ s[k].index = k - 1
        /\ s[k].eliminatedSum = (IF k = 1 THEN 0 ELSE s[k - 1].eliminatedSum)
                                   + s[k].eliminated

(* simplify() call i of l returned false: the listener is called next, for *)
(* that pass and with its count, and the run makes no further call of      *)
(* simplify()                                                              *)
FailingPassReported(l, i) ==
    /\ i < Len(l)
    /\ l[i + 1].kind = "onSimplifyPass"
    /\ l[i + 1].path = l[i].path
    /\ l[i + 1].eliminated = l[i].eliminations
    /\ \A j \in DOMAIN l : (j > i /\ l[j].kind = "simplify") => l[j].path # l[i].path

(* every simplifyListener call follows the simplify() call it reports *)
EventAfterItsPass(l, j) ==
    /\ j > 1
    /\ l[j - 1].kind = "simplify"
    /\ l[j - 1].path = l[j].path
    /\ l[j - 1].eliminations = l[j].eliminated

(* C19: when simplify() returns false, simplifyToTheEnd adds the count of  *)
(* that pass to the total, calls simplifyListener for it and returns false *)
(* without another pass; in every run of simplifyToTheEnd the indexes      *)
(* handed to the listener are 0, 1, 2, ... and each total handed to it is  *)
(* the sum of the counts handed to it so far                               *)
C19_ContradictionReported ==
    /\ \A p \in PathsOf(log) : RunningTotals(PassEventsOf(log, p))
    /\ \A i \in EntriesOf(log, "simplify") : ~log[i].ok => FailingPassReported(log, i)
    /\ \A j \in EntriesOf(log, "onSimplifyPass") : EventAfterItsPass(log, j)

(* a run of simplifyToTheEnd has just returned false from its second or    *)
(* later pass, which had cleared flags before it failed                    *)
C19_Witness ==
    /\ pc = "return_false"
    /\ Len(log) >= 2
    /\ log[Len(log) - 1].kind = "simplify"
    /\ ~log[Len(log) - 1].ok
    /\ log[Len(log)].kind = "onSimplifyPass"
    /\ log[Len(log)].index >= 1
    /\ log[Len(log)].eliminated > 0
    /\ log[Len(log)].eliminatedSum > log[Len(log)].eliminated
    /\ totalEliminations = log[Len(log)].eliminatedSum

(***************************************************************************)
(* The depth of the recursion.  stack holds one frame per dfsSolve         *)
(* invocation that is in its for loop; the invocation below frame d runs   *)
(* while frame d has tried a candidate and is not the one at the top in    *)
(* its own loop.                                                           *)
(***************************************************************************)
(* the trial of frame d is in progress: its recursion has not returned *)
TrialRunning(d) ==
    /\ stack[d].branchIndex >= 1
    /\ d < Len(stack) \/ pc \in {"simplify", "select", "return_false", "done"}

(* what C20 says of frame d *)
FrameCommitted(d) ==
    /\ Len(stack[d].candidates) >= 2
    /\ Cardinality(CandidatesOf(before, MarkerIndex(stack[d].pos))) >= 2
    /\ \A e \in 1 .. (d - 1) : stack[e].pos # stack[d].pos
    /\ TrialRunning(d) =>
          /\ Cardinality(CandidatesOf(bitset, MarkerIndex(stack[d].pos))) <= 1
          /\ NoFlagSet(stack[d].history, bitset)

(* the nested trials are at most the cells the input left undetermined *)
DepthBounded ==
    /\ pc = "loop" => stack # << >>
    /\ Len(stack) <= Cardinality(OpenCells(CountsOf(before)))
    /\ Len(stack) <= CellCount
    /\ \A d \in DOMAIN stack : FrameCommitted(d)

(* C20: dfsSolve, once called, returns; while it runs its recursion is at  *)
(* most 81 deep, and at most as deep as the number of cells the input left *)
(* with 2 or more candidates: each level is entered after a cell that had  *)
(* 2 or more candidates was committed to one candidate, the cells of the   *)
(* nested levels are distinct, and below a commit no flag is set again, so *)
(* the committed cell stays determined                                     *)
C20_TerminatesWithinDepth ==
    /\ []DepthBounded
    /\ (pc = "simplify") ~> (pc = "done")

(* a solve has returned from more than 40 nested trial assignments *)
C20_Witness ==
    /\ pc = "done"
    /\ result = "Success"
    /\ Len(stack) > CellCount \div 2
    /\ Len(stack) <= Cardinality(OpenCells(CountsOf(before)))
    /\ \A d \in DOMAIN stack : TrialRunning(d)

(***************************************************************************)
(* The order of the trials of one for loop.  An invocation of dfsSolve is  *)
(* known by the path it was entered with; its trials are the onAssign      *)
(* calls made with that path and one more branch index.                    *)
(***************************************************************************)
(* the onAssign calls of the invocation entered with path p *)
TrialsFrom(l, p) ==
    {i \in EntriesOf(l, "onAssign") :
        Len(l[i].path) = Len(p) + 1 /\ IsPrefix(p, l[i].path)}

(* the value of S with k smaller values in S *)
NthSmallest(S, k) == CHOOSE v \in S : Cardinality({w \in S : w < v}) = k

(* a frame keeps, from the choice of its cell to its end, the board the   *)
(* cell was chosen on: every turn of the loop saves that same board        *)
ChosenBoardKept ==
    /\ \A d \in DOMAIN stack \cap DOMAIN stack' :
          /\ stack'[d].history = stack[d].history
          /\ stack'[d].pos = stack[d].pos
    /\ (pc = "select" /\ pc' = "loop") =>
          /\ bitset' = bitset
          /\ Len(stack') = Len(stack) + 1
          /\ stack'[Len(stack')].history = bitset
          /\ TrialsFrom(log', path') = {}

(* trial k of a loop: the k-th smallest candidate the cell had on the      *)
(* board it was chosen on is left alone in the cell, k is pushed           *)
TrialInOrder ==
    TrialCommitted =>
        LET k == Cardinality(TrialsFrom(log, path))
            S == CandidatesOf(Top.history, MarkerIndex(Top.pos))
        IN  /\ k < Cardinality(S)
            /\ bitset = Top.history
            /\ path' = Append(path, k)
            /\ CandidatesOf(bitset', MarkerIndex(Top.pos)) = {NthSmallest(S, k)}
            /\ log'[Len(log')].value = NthSmallest(S, k)
            /\ \A i \in TrialsFrom(log, path) :
                  /\ log[i].value < NthSmallest(S, k)
                  /\ log[i].path[Len(log[i].path)] < k

(* the loop is at a later candidate only after the recursion of the one    *)
(* before it returned false                                                *)
NextAfterFailure ==
    (pc' = "loop" /\ pc # "select") =>
        /\ pc = "return_false"
        /\ path = Append(path', Cardinality(TrialsFrom(log', path')) - 1)
        /\ TrialsFrom(log', path') # {}

(* a return of true ends the solve where it stands *)
SuccessIsFinal ==
    /\ (result' = "Success" /\ result # "Success") =>
          /\ pc = "select"
          /\ pc' = "done"
          /\ UNCHANGED << bitset, log, path, stack, assigned, assignments,
                          simplifications >>
    /\ result = "Success" =>
          \/ UNCHANGED << bitset, log, path, stack, assigned, result >>
          \/ pc' = "input"

(* C21: at a branch cell the trials are made in ascending value order over *)
(* the candidates the cell had when it was chosen, with the branch indexes *)
(* 0, 1, 2, ... pushed on the path in that order; candidate k+1 is tried   *)
(* only after the recursion for candidate k returned false; and once a     *)
(* recursion returns true no further candidate is tried, no further        *)
(* listener call is made and the board is not written again                *)
C21_TrialsAscending ==
    [][/\ ChosenBoardKept
       /\ TrialInOrder
       /\ NextAfterFailure
       /\ SuccessIsFinal]_vars

(* a solve returned true after a loop had gone on to its second candidate, *)
(* with candidates of its loops left untried                               *)
C21_Witness ==
    /\ pc = "done"
    /\ result = "Success"
    /\ \E i \in EntriesOf(log, "onAssign") : log[i].path[Len(log[i].path)] >= 1
    /\ \E d \in DOMAIN stack :
          /\ TrialsFrom(log, stack[d].entryPath) # {}
          /\ Cardinality(TrialsFrom(log, stack[d].entryPath))
                < Cardinality(CandidatesOf(stack[d].history, MarkerIndex(stack[d].pos)))

(***************************************************************************)
(* The non-forcing assignments.  The events of a pass, in order, are read  *)
(* as the account of its writes: an ELIMINATION event clears one flag of a *)
(* peer, a VALUE_SURE event is followed by makeSureAt(cell, value, false), *)
(* which clears the eight other flags of the cell.                         *)
(***************************************************************************)
NakedCauses ==
    {"ELIMINATION_BY_ROW", "ELIMINATION_BY_COLUMN", "ELIMINATION_BY_CHUNK"}

(* the flat index of the flag of value v at cell gpos *)
FlagAt(gpos, v) == MarkerIndex(gpos) * BoardSize + (v - 1)

(* the flags the write reported by event e clears, set or not *)
ClearedFlags(e) ==
    IF e.cause \in NakedCauses THEN {FlagAt(e.cell, e.value)}
    ELSE IF e.cause \in HiddenCauses
         THEN {FlagAt(e.cell, w) : w \in Values \ {e.value}}
         ELSE {}

(* the set flags of the board of pass p after the writes of its first j events *)
FlagsAfter(p, j) ==
    FlagsOf(p.was) \ UNION {ClearedFlags(p.events[k]) : k \in 1 .. j}

(* the candidates cell gpos has in a set of flags *)
CandidatesIn(flags, gpos) == {v \in Values : FlagAt(gpos, v) \in flags}

(* the events of pass p account for the board it left *)
PassReplays(p) == FlagsOf(p.now) = FlagsAfter(p, Len(p.events))

(* every hidden-single determination of pass p names a value that was set  *)
(* at the cell when makeSureAt was called, and leaves that value alone     *)
HiddenTargetsLive(p) ==
    \A j \in 1 .. Len(p.events) :
        p.events[j].cause \in HiddenCauses =>
            /\ p.events[j].value \in CandidatesIn(FlagsAfter(p, j - 1), p.events[j].cell)
            /\ CandidatesIn(FlagsAfter(p, j), p.events[j].cell) = {p.events[j].value}

(* a cell that pass p left without candidates lost its last one to the     *)
(* naked-single rule of a peer                                             *)
EmptiedByNakedSingle(p) ==
    \A i \in CellIndexes :
        (CandidatesOf(p.now, i) = {} /\ CandidatesOf(p.was, i) # {}) =>
            \E j \in 1 .. Len(p.events) :
                /\ p.events[j].cause \in NakedCauses
                /\ MarkerIndex(p.events[j].cell) = i
                /\ CandidatesIn(FlagsAfter(p, j - 1), p.events[j].cell) = {p.events[j].value}

(* the trial just committed: the value was set at the cell on the board the *)
(* turn of the loop started from, it is now alone there, and no other cell *)
(* was written                                                             *)
TrialTargetLive ==
    (log # << >> /\ log[Len(log)].kind = "onAssign") =>
        LET e == log[Len(log)]
        IN  /\ stack # << >>
            /\ e.pos = Top.pos
            /\ e.value \in CandidatesOf(Top.tried, MarkerIndex(e.pos))
            /\ CandidatesOf(bitset, MarkerIndex(e.pos)) = {e.value}
            /\ FlagsOf(bitset) =
                  FlagsOf(Top.tried) \ {FlagAt(e.pos, w) : w \in Values \ {e.value}}

(* C22: every non-forcing assignment of the solver, a hidden-single        *)
(* determination inside simplify() or a trial commit inside dfsSolve, names *)
(* a value that is set at the cell at the moment of the call, so that the  *)
(* cell is left with exactly that one candidate and no cell is left        *)
(* without candidates by it; a cell that had candidates loses its last one *)
(* to the naked-single elimination of a peer only                          *)
C22_AssignmentsTargetLive ==
    /\ TrialTargetLive
    /\ lastPass.ran =>
          /\ PassReplays(lastPass)
          /\ HiddenTargetsLive(lastPass)
          /\ EmptiedByNakedSingle(lastPass)

(* the second candidate of a loop has just been committed, after a pass of *)
(* the first one's recursion that made a hidden-single determination and   *)
(* returned false on a cell emptied by a naked single                      *)
C22_Witness ==
    /\ log # << >>
    /\ log[Len(log)].kind = "onAssign"
    /\ log[Len(log)].value \in CandidatesOf(Top.tried, MarkerIndex(Top.pos))
    /\ lastPass.ran
    /\ ~lastPass.ok
    /\ \E j \in 1 .. Len(lastPass.events) : lastPass.events[j].cause \in HiddenCauses
    /\ \E i \in CellIndexes :
          CandidatesOf(lastPass.now, i) = {} /\ CandidatesOf(lastPass.was, i) # {}

(***************************************************************************)
(* Monotonicity of the candidate flags during a solve; before is the copy  *)
(* of the board solver() takes before it calls dfsSolve.                   *)
(***************************************************************************)
(* the step is the restore after a failed recursion *)
RestoreStep == pc = "return_false" /\ pc' = "loop"

(* a step of the solve other than the restore sets no flag; the restore    *)
(* sets flags only, and puts back the board its turn of the loop started   *)
(* from                                                                    *)
MonotoneStep ==
    Running =>
        IF RestoreStep
        THEN /\ NoFlagSet(bitset', bitset)
             /\ bitset' = Top.tried
        ELSE NoFlagSet(bitset, bitset')

(* the cells the input determined *)
ClueCells == {i \in CellIndexes : Cardinality(CandidatesOf(before, i)) = 1}

(* during a solve and after it every cell's candidates are among those it  *)
(* had on the input board, and a solved board holds every clue             *)
WithinInitial ==
    (Running \/ pc = "done") =>
        /\ NoFlagSet(before, bitset)
        /\ \A d \in DOMAIN stack :
              NoFlagSet(before, stack[d].history) /\ NoFlagSet(before, stack[d].tried)
        /\ result = "Success" =>
              \A i \in ClueCells : CandidatesOf(bitset, i) = CandidatesOf(before, i)

(* C23: simplify(), simplifyToTheEnd() and the trial commits never set a   *)
(* flag that was clear; the only step of a solve that sets flags is the    *)
(* restore after a failed recursion, which puts back a board held before.  *)
(* So at every point of a solve and at its end each cell's candidates are  *)
(* a subset of its candidates on the input board, and every cell the input *)
(* determined holds its clue on a solved board                             *)
C23_CandidatesMonotone ==
    /\ []WithinInitial
    /\ [][MonotoneStep]_vars

(* a solved board reached after a restore that set flags again: clue cells *)
(* hold their clues, cells that were open hold one of their candidates     *)
C23_Witness ==
    /\ pc = "done"
    /\ result = "Success"
    /\ \E i \in EntriesOf(log, "onAssign") : log[i].path[Len(log[i].path)] >= 1
    /\ ClueCells # {}
    /\ \E i \in CellIndexes :
          /\ Cardinality(CandidatesOf(before, i)) > 1
          /\ Cardinality(CandidatesOf(bitset, i)) = 1
          /\ CandidatesOf(bitset, i) \subseteq CandidatesOf(before, i)

(***************************************************************************)
(* The path and the markers.  The invocations of dfsSolve that are in      *)
(* their for loop are the frames of stack; the invocation a frame called   *)
(* was entered with the frame's path plus the pushed index and with the    *)
(* markers of the frame's entry plus the mark of the frame's cell.         *)
(***************************************************************************)
(* the cells whose marker is true *)
MarkedCells == {i \in CellIndexes : assigned[i]}

(* the cells chosen by the invocations that are in their for loop *)
BranchCells == {MarkerIndex(stack[d].pos) : d \in DOMAIN stack}

(* assignListener has just been called, or dfsSolve has returned true *)
AtAssignOrSuccess ==
    \/ log # << >> /\ log[Len(log)].kind = "onAssign"
    \/ pc = "done" /\ result = "Success"

MarkersAreBranchCells ==
    AtAssignOrSuccess =>
        /\ MarkedCells = BranchCells
        /\ Cardinality(MarkedCells) = Len(path) - 1
        /\ path[1] = 0

(* an invocation has just returned false: the outermost one, entered with  *)
(* the path << 0 >> and no marker, or the one called by the frame at the   *)
(* top                                                                     *)
ReturnedFalseAtEntry ==
    /\ pc = "return_false" =>
          IF stack = << >>
          THEN path = << 0 >> /\ assigned = NoMarkers
          ELSE /\ Top.branchIndex >= 1
               /\ path = Append(Top.entryPath, Top.branchIndex - 1)
               /\ ~Top.entryAssigned[MarkerIndex(Top.pos)]
               /\ assigned = [Top.entryAssigned EXCEPT ![MarkerIndex(Top.pos)] = TRUE]
    /\ (pc = "done" /\ result = "Failure") => path = << 0 >> /\ assigned = NoMarkers

(* C24: in a solve started with all 81 markers false, at every call of     *)
(* assignListener and when dfsSolve returns true the marked cells are      *)
(* exactly the branch cells of the invocations that are active, and they   *)
(* are as many as the path is long less 1, the path starting with the      *)
(* dummy 0; and whenever an invocation returns false the path and the      *)
(* markers are exactly as they were when that invocation was entered       *)
C24_PathAndMarkers ==
    /\ MarkersAreBranchCells
    /\ ReturnedFalseAtEntry

(* an invocation that had marked a cell and tried its candidates has       *)
(* returned false to the loop that called it                               *)
C24_Witness ==
    /\ pc = "return_false"
    /\ stack # << >>
    /\ TrialsFrom(log, path) # {}
    /\ MarkedCells = BranchCells
    /\ Len(path) = Len(stack) + 1

(***************************************************************************)
(* The board simplifyToTheEnd returns true on.  The two rules are stated   *)
(* on the candidate sets c of the 81 cells: the naked-single rule has work *)
(* where a cell of one candidate shares it with a cell of its row, column  *)
(* or chunk, the hidden-single rule where a cell of two or more candidates *)
(* has one that no other cell of one of its houses has.                    *)
(***************************************************************************)
NakedSingleApplies(c, i) ==
    Cardinality(c[i]) = 1 /\ \E j \in HouseMates[i] : c[i] \cap c[j] # {}

HiddenSingleApplies(c, i) ==
    /\ Cardinality(c[i]) >= 2
    /\ \E v \in c[i] : \E h \in Houses :
          i \in h /\ \A j \in h \ {i} : v \notin c[j]

(* no cell is without candidates and neither rule has work *)
Fixpoint(c) ==
    \A i \in CellIndexes :
        /\ c[i] # {}
        /\ ~NakedSingleApplies(c, i)
        /\ ~HiddenSingleApplies(c, i)

(* a pass that returned true reported 0 exactly when it changed no flag *)
ZeroIffUnchanged(p) ==
    p.ok => (p.eliminations = 0 <=> FlagsOf(p.now) = FlagsOf(p.was))

(* one more pass on board b: true, 0 eliminations, no event, no flag changed *)
PassIsIdle(b, r) ==
    /\ r.ok
    /\ r.eliminations = 0
    /\ r.events = << >>
    /\ FlagsOf(r.bitset) = FlagsOf(b)

(* the MRV scan on board b finds, unless b is solved, a cell of 2 or more  *)
(* candidates: the result with count 0 is not the one it returns           *)
MRVFindsOpenCell(b, m) ==
    \/ isSolved(b)
    \/ ~m.threw /\ m.count >= 2 /\ Cardinality(CandidatesOf(b, MarkerIndex(m.pos))) = m.count

(* C25: when simplifyToTheEnd returns true the board is a fixpoint of the  *)
(* two rules without contradiction: no cell has zero candidates, one more  *)
(* simplify() pass would clear no flag and report 0 eliminations (a pass   *)
(* that returns true reports 0 exactly when it changed no flag), and so    *)
(* the MRV scan of dfsSolve never returns its zero-candidate result        *)
C25_OkIsFixpoint ==
    /\ lastPass.ran => ZeroIffUnchanged(lastPass)
    /\ pc = "select" =>
          /\ lastPass.ran /\ lastPass.ok /\ lastPass.eliminations = 0
          /\ lastPass.now = bitset
          /\ Fixpoint(AllCandidates(bitset))
          /\ PassIsIdle(bitset, simplify(bitset))
          /\ MRVFindsOpenCell(bitset, findMRVCell(bitset))

(* simplifyToTheEnd has returned true after three or more passes on a      *)
(* board that is not solved: cells of one candidate and cells of more      *)
C25_Witness ==
    /\ pc = "select"
    /\ index >= 2
    /\ totalEliminations > 0
    /\ OpenCells(CountsOf(bitset)) # {}
    /\ \E i \in CellIndexes : Cardinality(CandidatesOf(bitset, i)) = 1
    /\ ZeroCells(CountsOf(bitset)) = {}

=============================================================================
